---------------------------- MODULE Spec2Model ----------------------------
(***************************************************************************)
(* Model of the mortgage amortization engine (lib/mortgage.ts):            *)
(* getCMHCPremiumRate, calculateMortgageWithInsurance, getPeriodicRate,    *)
(* calculatePayment, getPaymentCount, getAdditionalPaymentAmount and the   *)
(* loop of calculateAmortizationSchedule.                                  *)
(*                                                                         *)
(* Numbers.  The code computes in IEEE doubles.  The model computes in     *)
(* exact rationals <<n, d>> (d > 0, lowest terms), i.e. the real-number    *)
(* meaning of every expression of the code; <<1, 0>> stands for the        *)
(* double +Infinity that a division of a positive number by zero gives and *)
(* <<0, 0>> for NaN.  Math.pow with the fractional exponent 2/n is an      *)
(* exact n/2-th root, so the annual rates the model draws are those whose  *)
(* root is rational (see ExactRates).                                      *)
(***************************************************************************)
EXTENDS Integers, Sequences, FiniteSets, TLC

(***************************************************************************)
(* Exact rational arithmetic.                                              *)
(***************************************************************************)
Abs(x) == IF x < 0 THEN -x ELSE x

RECURSIVE GCD(_, _)
GCD(a, b) == IF b = 0 THEN a ELSE GCD(b, a % b)

Norm(n, d) ==
  LET g == GCD(Abs(n), d)
  IN  IF g = 0 THEN <<0, 1>> ELSE <<n \div g, d \div g>>

Rat(n) == <<n, 1>>
Frac(n, d) == Norm(n, d)
Zero == <<0, 1>>
Infinity == <<1, 0>>
NaN == <<0, 0>>
IsFinite(a) == a[2] # 0

RAdd(a, b) ==
  LET g == GCD(a[2], b[2])
  IN  Norm(a[1] * (b[2] \div g) + b[1] * (a[2] \div g), (a[2] \div g) * b[2])
RNeg(a) == <<-a[1], a[2]>>
\* The sum of a sequence of rationals; exact addition is associative, so the
\* sequence is summed by halves.
RECURSIVE RSumOver(_, _, _)
RSumOver(xs, lo, hi) ==
  IF lo > hi THEN <<0, 1>>
  ELSE IF lo = hi THEN xs[lo]
  ELSE LET mid == (lo + hi) \div 2
       IN  RAdd(RSumOver(xs, lo, mid), RSumOver(xs, mid + 1, hi))
RSum(xs) == RSumOver(xs, 1, Len(xs))
RSub(a, b) == RAdd(a, RNeg(b))
RMul(a, b) ==
  LET g1 == GCD(Abs(a[1]), b[2])
      g2 == GCD(Abs(b[1]), a[2])
      h1 == IF g1 = 0 THEN 1 ELSE g1
      h2 == IF g2 = 0 THEN 1 ELSE g2
  IN  Norm((a[1] \div h1) * (b[1] \div h2), (a[2] \div h2) * (b[2] \div h1))
\* JavaScript division: x / 0 is +Infinity for x > 0, -Infinity is not needed
\* here (no negative dividend reaches a zero divisor), 0 / 0 is NaN.
RDiv(a, b) ==
  IF b[1] = 0
    THEN (IF a[1] = 0 THEN NaN ELSE Infinity)
    ELSE IF b[1] > 0 THEN RMul(a, <<b[2], b[1]>>)
                     ELSE RMul(a, <<-b[2], -b[1]>>)
RLess(a, b) == RSub(a, b)[1] < 0
RLeq(a, b) == RSub(a, b)[1] <= 0
\* Math.min / Math.max on a finite b; a may be +Infinity.
RMin(a, b) == IF ~IsFinite(a) THEN b ELSE IF RLess(a, b) THEN a ELSE b
RMax(a, b) == IF RLess(a, b) THEN b ELSE a

RECURSIVE RPow(_, _)
RPow(a, k) ==
  IF k = 0 THEN Rat(1)
  ELSE IF k < 0 THEN RDiv(Rat(1), RPow(a, -k))
  ELSE IF k % 2 = 0 THEN LET h == RPow(a, k \div 2) IN RMul(h, h)
  ELSE RMul(a, RPow(a, k - 1))

\* Math.round of a non-negative rational: floor(x + 1/2).
Round(a) == (2 * a[1] + a[2]) \div (2 * a[2])

\* q^k for q >= 1, by squaring; cap + 1 stands for every power above cap.
RECURSIVE PowCap(_, _, _)
PowCap(q, k, cap) ==
  IF k = 0 \/ q = 1 THEN 1
  ELSE LET h == PowCap(q, k \div 2, cap)
           sq == IF h > cap \div h THEN cap + 1 ELSE h * h
       IN  IF k % 2 = 0 THEN sq
           ELSE IF sq > cap \div q THEN cap + 1 ELSE sq * q

\* The k-th root of a perfect k-th power m >= 1.
RECURSIVE RootFrom(_, _, _)
RootFrom(q, m, k) == IF PowCap(q, k, m) >= m THEN q ELSE RootFrom(q + 1, m, k)
IntRoot(m, k) == RootFrom(1, m, k)
IsPower(m, k) == PowCap(IntRoot(m, k), k, m) = m


(***************************************************************************)
(* Insurance calculator.                                                   *)
(***************************************************************************)
\* The premium table with the 20% boundary excluded from the top band.
getCMHCPremiumRateStrict(downPaymentPercent) ==
  IF RLess(Rat(20), downPaymentPercent) THEN [threw |-> FALSE, value |-> Zero]
  ELSE IF RLeq(Rat(15), downPaymentPercent)
    THEN [threw |-> FALSE, value |-> Frac(28, 1000)]
  ELSE IF RLeq(Rat(10), downPaymentPercent)
    THEN [threw |-> FALSE, value |-> Frac(31, 1000)]
  ELSE IF RLeq(Rat(5), downPaymentPercent)
    THEN [threw |-> FALSE, value |-> Frac(4, 100)]
  ELSE [threw |-> TRUE, value |-> NaN]

\* The premium table without the 5% floor: the lowest band extends to 0.
getCMHCPremiumRateNoFloor(downPaymentPercent) ==
  IF RLeq(Rat(20), downPaymentPercent) THEN [threw |-> FALSE, value |-> Zero]
  ELSE IF RLeq(Rat(15), downPaymentPercent)
    THEN [threw |-> FALSE, value |-> Frac(28, 1000)]
  ELSE IF RLeq(Rat(10), downPaymentPercent)
    THEN [threw |-> FALSE, value |-> Frac(31, 1000)]
  ELSE [threw |-> FALSE, value |-> Frac(4, 100)]

\* A thrown Error is the record [threw |-> TRUE]; a returned number r is
\* [threw |-> FALSE, value |-> r].
getCMHCPremiumRate(downPaymentPercent) ==
  IF RLeq(Rat(20), downPaymentPercent) THEN [threw |-> FALSE, value |-> Zero]
  ELSE IF RLeq(Rat(15), downPaymentPercent)
    THEN [threw |-> FALSE, value |-> Frac(28, 1000)]
  ELSE IF RLeq(Rat(10), downPaymentPercent)
    THEN [threw |-> FALSE, value |-> Frac(31, 1000)]
  ELSE IF RLeq(Rat(5), downPaymentPercent)
    THEN [threw |-> FALSE, value |-> Frac(4, 100)]
  ELSE [threw |-> TRUE, value |-> NaN]

\* The financing with the premium charged on the loan plus the additional
\* financing.
calculateMortgageWithPremiumOnAll(purchasePrice, downPaymentPercent, additionalFinancing, cmhcPstRate) ==
  LET downPayment == RMul(purchasePrice, RDiv(downPaymentPercent, Rat(100)))
      mortgageAmount == RSub(purchasePrice, downPayment)
      rate == getCMHCPremiumRate(downPaymentPercent)
      cmhcInsurance ==
        RMul(RAdd(mortgageAmount, additionalFinancing), rate.value)
      cmhcPst == RMul(cmhcInsurance, cmhcPstRate)
  IN  IF rate.threw
        THEN [threw |-> TRUE]
        ELSE [threw |-> FALSE,
              downPayment |-> downPayment,
              mortgageAmount |-> mortgageAmount,
              cmhcPremiumRate |-> rate.value,
              cmhcInsurance |-> cmhcInsurance,
              cmhcPst |-> cmhcPst,
              cmhcPstRate |-> cmhcPstRate,
              additionalFinancing |-> additionalFinancing,
              totalPrincipal |->
                RAdd(RAdd(RAdd(mortgageAmount, cmhcInsurance), cmhcPst),
                     additionalFinancing)]

calculateMortgageWithInsurance(purchasePrice, downPaymentPercent, additionalFinancing, cmhcPstRate) ==
  LET downPayment == RMul(purchasePrice, RDiv(downPaymentPercent, Rat(100)))
      mortgageAmount == RSub(purchasePrice, downPayment)
      rate == getCMHCPremiumRate(downPaymentPercent)
      cmhcPremiumRate == rate.value
      cmhcInsurance == RMul(mortgageAmount, cmhcPremiumRate)
      cmhcPst == RMul(cmhcInsurance, cmhcPstRate)
      totalPrincipal ==
        RAdd(RAdd(RAdd(mortgageAmount, cmhcInsurance), cmhcPst),
             additionalFinancing)
  IN  IF rate.threw
        THEN [threw |-> TRUE]
        ELSE [threw |-> FALSE,
              downPayment |-> downPayment,
              mortgageAmount |-> mortgageAmount,
              cmhcPremiumRate |-> cmhcPremiumRate,
              cmhcInsurance |-> cmhcInsurance,
              cmhcPst |-> cmhcPst,
              cmhcPstRate |-> cmhcPstRate,
              additionalFinancing |-> additionalFinancing,
              totalPrincipal |-> totalPrincipal]

(***************************************************************************)
(* Rate converter, payment sizer, payment count.                           *)
(***************************************************************************)
PaymentFrequency == {"monthly", "bi-weekly", "weekly", "accelerated-bi-weekly"}

\* Accelerated bi-weekly taken as 24 payments a year (half-monthly).
getPaymentsPerYearHalfMonthly(frequency) ==
  CASE frequency = "monthly" -> 12
    [] frequency = "bi-weekly" -> 26
    [] frequency = "accelerated-bi-weekly" -> 24
    [] frequency = "weekly" -> 52

getPaymentsPerYear(frequency) ==
  CASE frequency = "monthly" -> 12
    [] frequency = "bi-weekly" -> 26
    [] frequency = "accelerated-bi-weekly" -> 26
    [] frequency = "weekly" -> 52

\* Math.pow(1 + annualRate / 2, 2 / paymentsPerYear) - 1: the exponent is
\* 1 / (paymentsPerYear / 2), a root of that degree, taken of the numerator
\* and of the denominator.
getPeriodicRate(annualRate, frequency) ==
  LET paymentsPerYear == getPaymentsPerYear(frequency)
      semiAnnualRate == RDiv(annualRate, Rat(2))
      base == RAdd(Rat(1), semiAnnualRate)
      k == paymentsPerYear \div 2
  IN  RSub(Frac(IntRoot(base[1], k), IntRoot(base[2], k)), Rat(1))

\* The annual rates whose periodic rate getPeriodicRate computes exactly.
HasExactRate(annualRate, frequency) ==
  LET base == RAdd(Rat(1), RDiv(annualRate, Rat(2)))
      k == getPaymentsPerYear(frequency) \div 2
  IN  IsPower(base[1], k) /\ IsPower(base[2], k)

calculatePayment(principal, periodicRate, numberOfPayments) ==
  IF periodicRate = Zero
    THEN RDiv(principal, Rat(numberOfPayments))
    ELSE LET pw == RPow(RAdd(Rat(1), periodicRate), numberOfPayments)
         IN  RDiv(RMul(principal, RMul(periodicRate, pw)), RSub(pw, Rat(1)))

getPaymentCount(years, frequency) ==
  Round(RMul(years, Rat(getPaymentsPerYear(frequency))))

(***************************************************************************)
(* Prepayment resolver.  An optional field is <<>> when it is not set and  *)
(* <<v>> when it holds v; enabled is "true", "false" or "undefined".       *)
(***************************************************************************)
\* JavaScript truthiness of an optional number: set and not 0.
Truthy(opt) == opt # <<>> /\ opt[1] # 0

\* The contribution of one rule with the end index excluded.
addlPmtContributionEndExclusive(paymentNumber, addlPmt) ==
  IF addlPmt.enabled = "false" THEN Zero
  ELSE IF paymentNumber < addlPmt.startPayment THEN Zero
  ELSE IF Truthy(addlPmt.endPayment) /\ paymentNumber >= addlPmt.endPayment[1]
    THEN Zero
  ELSE IF addlPmt.type = "one-time"
    THEN (IF paymentNumber = addlPmt.startPayment THEN addlPmt.amount ELSE Zero)
  ELSE LET frequency ==
             IF Truthy(addlPmt.frequency) THEN addlPmt.frequency[1] ELSE 1
       IN  IF (paymentNumber - addlPmt.startPayment) % frequency = 0
             THEN addlPmt.amount ELSE Zero

addlPmtContribution(paymentNumber, addlPmt) ==
  IF addlPmt.enabled = "false" THEN Zero
  ELSE IF paymentNumber < addlPmt.startPayment THEN Zero
  ELSE IF Truthy(addlPmt.endPayment) /\ paymentNumber > addlPmt.endPayment[1]
    THEN Zero
  ELSE IF addlPmt.type = "one-time"
    THEN (IF paymentNumber = addlPmt.startPayment THEN addlPmt.amount ELSE Zero)
  ELSE IF addlPmt.type = "recurring"
    THEN LET frequency ==
               IF Truthy(addlPmt.frequency) THEN addlPmt.frequency[1] ELSE 1
             paymentsSinceStart == paymentNumber - addlPmt.startPayment
         IN  IF paymentsSinceStart % frequency = 0 THEN addlPmt.amount
                                                   ELSE Zero
  ELSE Zero

RECURSIVE getAdditionalPaymentAmount(_, _)
getAdditionalPaymentAmount(paymentNumber, additionalPayments) ==
  IF additionalPayments = <<>> THEN Zero
  ELSE RAdd(addlPmtContribution(paymentNumber, Head(additionalPayments)),
            getAdditionalPaymentAmount(paymentNumber, Tail(additionalPayments)))

(***************************************************************************)
(* Payment dates and limit periods.  A date is [y, m, d] with m in 1..12   *)
(* (Date.getMonth() is m - 1; only month differences are used).            *)
(***************************************************************************)
IsLeap(y) == (y % 4 = 0 /\ y % 100 # 0) \/ y % 400 = 0

DaysInMonth(y, m) ==
  IF m = 2 THEN (IF IsLeap(y) THEN 29 ELSE 28)
  ELSE IF m \in {4, 6, 9, 11} THEN 30 ELSE 31

\* paymentDate.setDate(paymentDate.getDate() + daysToAdd), daysToAdd >= 0.
RECURSIVE AddDays(_, _)
AddDays(date, n) ==
  IF date.d + n <= DaysInMonth(date.y, date.m)
    THEN [date EXCEPT !.d = date.d + n]
    ELSE AddDays([y |-> IF date.m = 12 THEN date.y + 1 ELSE date.y,
                  m |-> IF date.m = 12 THEN 1 ELSE date.m + 1,
                  d |-> 1],
                 n - (DaysInMonth(date.y, date.m) - date.d + 1))

\* The offsets counted from index 0: entry 1 one step after the start date.
getDaysForPaymentFromZero(paymentNumber, frequency) ==
  CASE frequency = "monthly" -> Round(Frac(paymentNumber * 3044, 100))
    [] frequency = "bi-weekly" -> paymentNumber * 14
    [] frequency = "accelerated-bi-weekly" -> paymentNumber * 14
    [] frequency = "weekly" -> paymentNumber * 7

getDaysForPayment(paymentNumber, frequency) ==
  CASE frequency = "monthly" -> Round(Frac((paymentNumber - 1) * 3044, 100))
    [] frequency = "bi-weekly" -> (paymentNumber - 1) * 14
    [] frequency = "accelerated-bi-weekly" -> (paymentNumber - 1) * 14
    [] frequency = "weekly" -> (paymentNumber - 1) * 7

\* The identifier string: the year, or "anniversary-<n>".  NoPeriod is the
\* initial ''.
NoPeriod == [kind |-> "", n |-> 0]

getPeriodIdentifier(date, startDate, resetPeriod) ==
  IF resetPeriod = "calendar"
    THEN [kind |-> "year", n |-> date.y]
    ELSE LET monthsSinceStart ==
               (date.y - startDate.y) * 12 + (date.m - startDate.m)
         IN  [kind |-> "anniversary", n |-> monthsSinceStart \div 12]

(***************************************************************************)
(* Sorting of the renewal periods: Array.prototype.sort is stable.         *)
(***************************************************************************)
RECURSIVE InsertByStart(_, _)
InsertByStart(t, sorted) ==
  IF sorted = <<>> THEN <<t>>
  ELSE IF t.startPayment < Head(sorted).startPayment THEN <<t>> \o sorted
  ELSE <<Head(sorted)>> \o InsertByStart(t, Tail(sorted))

RECURSIVE SortByStart(_)
SortByStart(periods) ==
  IF periods = <<>> THEN <<>>
  ELSE InsertByStart(periods[Len(periods)],
                     SortByStart(SubSeq(periods, 1, Len(periods) - 1)))

\* The caller's list sorted where it is.
renewalPeriodsSortedInPlace(periods) == SortByStart(periods)

\* Lines 276-277: setDate works on paymentDate, a new Date made from
\* startDate, so the caller's start date is afterwards what it was.
startDateAfterPayment(startDate) == startDate

\* Lines 231-233: the sort works on a spread copy of renewalPeriods, so the
\* caller's list is afterwards what it was.
renewalPeriodsAfterSort(periods) == periods

(***************************************************************************)
(* The library as a state machine.  One behaviour is one call of one of    *)
(* its functions from the idle state: calculateAmortizationSchedule, whose *)
(* argument is params and whose locals and outcome (schedule, or error     *)
(* when it threw) are the variables below; calculateMortgageWithInsurance  *)
(* on its own (finCall); getAdditionalPaymentAmount on its own (extraCall).*)
(* params is the caller's object, which the run reads through its          *)
(* destructured fields; arguments is its value when the call was made.     *)
(***************************************************************************)
VARIABLES arguments, params, pc, error, insuranceDetails, payments, totalPayments,
          balance, totalInterestPaid, totalAdditionalPayments, paymentNumber,
          prepaymentLimitViolations, currentPeriodLumpSum,
          currentPeriodIdentifier, sortedPeriods, termIndex, term, i, schedule,
          finCall, extraCall, history, app, storage

vars == <<arguments, params, pc, error, insuranceDetails, payments, totalPayments,
          balance, totalInterestPaid, totalAdditionalPayments, paymentNumber,
          prepaymentLimitViolations, currentPeriodLumpSum,
          currentPeriodIdentifier, sortedPeriods, termIndex, term, i, schedule,
          finCall, extraCall, history, app, storage>>

engineVars == <<arguments, params, pc, error, insuranceDetails, payments, totalPayments,
                balance, totalInterestPaid, totalAdditionalPayments,
                paymentNumber, prepaymentLimitViolations, currentPeriodLumpSum,
                currentPeriodIdentifier, sortedPeriods, termIndex, term, i,
                schedule, history>>

\* A tolerance below every balance: no balance counts as paid off.
ToleranceBelowZero == <<-1, 1>>

Tolerance == Frac(1, 100)

NoTerm == [paymentsInTerm |-> 0, periodicRate |-> Zero, payment |-> Zero]
NoLimits == [set |-> FALSE]

NoCall == [called |-> FALSE]
NoParams == [set |-> FALSE]
\* localStorage without the key 'mortgage-profiles'.
NoItem == [present |-> FALSE]
\* The profile store before any of its functions has been called.
NoStorage ==
  [item |-> NoItem, now |-> 0, generated |-> 0, returned |-> <<>>,
   removed |-> {}, call |-> [op |-> "none"], calls |-> 0]
\* App.tsx before it is mounted: no profile store, URL or form state yet.
Unmounted == [phase |-> "unmounted"]

Idle ==
  /\ pc = "idle"
  /\ ~finCall.called
  /\ ~extraCall.called
  /\ app = Unmounted
  /\ storage = NoStorage

\* Nothing has been called yet.
Fresh ==
  /\ arguments = NoParams
  /\ params = NoParams
  /\ finCall = NoCall
  /\ extraCall = NoCall
  /\ pc = "idle"
  /\ error = ""
  /\ insuranceDetails = [threw |-> FALSE]
  /\ payments = <<>>
  /\ totalPayments = 0
  /\ balance = Zero
  /\ totalInterestPaid = Zero
  /\ totalAdditionalPayments = Zero
  /\ paymentNumber = 0
  /\ prepaymentLimitViolations = 0
  /\ currentPeriodLumpSum = Zero
  /\ currentPeriodIdentifier = NoPeriod
  /\ sortedPeriods = <<>>
  /\ termIndex = 0
  /\ term = NoTerm
  /\ i = 0
  /\ schedule = [returned |-> FALSE]
  /\ history = <<>>
  /\ app = Unmounted
  /\ storage = NoStorage

(***************************************************************************)
(* The arguments the engine is called with.                                *)
(***************************************************************************)
MaxTerms == 2
MaxStart == 2

\* Amortization lengths in years, by frequency: the nominal payment counts
\* they give are 0 and 3 (monthly), 1 and 4 (bi-weekly), 4 (weekly).
AmortizationYearsFor(frequency) ==
  CASE frequency = "monthly" -> {Frac(1, 30), Frac(1, 4)}
    [] frequency = "bi-weekly" -> {Frac(1, 30), Frac(2, 13)}
    [] frequency = "accelerated-bi-weekly" -> {Frac(1, 30), Frac(2, 13)}
    [] frequency = "weekly" -> {Frac(1, 13)}

\* The annual rate a with 1 + a/2 = 2^(n/2), n the payments a year: its
\* periodic rate is exactly 1 (126 monthly, 16382 bi-weekly, 134217726 weekly).
ExactRateFor(frequency) ==
  LET k == getPaymentsPerYear(frequency) \div 2
  IN  Rat(2 * (2^k - 1))

AnnualRatesFor(frequency) ==
  {a \in {Zero, ExactRateFor(frequency)} : HasExactRate(a, frequency)}

RenewalPeriodsFor(frequency) ==
  [startPayment : 1..MaxStart,
   annualRate : AnnualRatesFor(frequency),
   termYears : {5}]

SeqsUpTo(S, n) == UNION {[1..k -> S] : k \in 0..n}

\* A one-time payment, a recurring one, and one larger than any balance.
AdditionalPaymentChoices ==
  { <<>>,
    << [type |-> "one-time", amount |-> Rat(300), startPayment |-> 2,
        endPayment |-> <<>>, frequency |-> <<>>, enabled |-> "true"] >>,
    << [type |-> "recurring", amount |-> Rat(200), startPayment |-> 1,
        endPayment |-> <<>>, frequency |-> <<2>>, enabled |-> "undefined"],
       [type |-> "one-time", amount |-> Rat(5000), startPayment |-> 3,
        endPayment |-> <<>>, frequency |-> <<>>, enabled |-> "true"] >> }

\* [purchasePrice, downPaymentPercent, principal]: a down payment below the
\* floor, a principal that is the total financed principal of the purchase,
\* and one that is not.
Purchases ==
  { [purchasePrice |-> Rat(1000), downPaymentPercent |-> Rat(4),
     principal |-> Rat(800)],
    [purchasePrice |-> Rat(1000), downPaymentPercent |-> Rat(20),
     principal |-> Rat(800)],
    [purchasePrice |-> Rat(1000), downPaymentPercent |-> Rat(10),
     principal |-> Rat(800)] }

PrepaymentLimitChoices ==
  { NoLimits,
    [set |-> TRUE, lumpSumLimitPercent |-> Rat(30),
     paymentIncreaseLimitPercent |-> Rat(15), resetPeriod |-> "calendar"] }

StartDates == { [y |-> 2024, m |-> 12, d |-> 20] }

\* Runs of 24 monthly payments at rate 0 from 2024-12-20: payments 1 and 2
\* fall in two calendar years and one anniversary year, payments 12 and 13 in
\* one calendar year and two anniversary years, payments 10 to 12 in one
\* calendar year and one anniversary year.
LongExtras ==
  { << [type |-> "recurring", amount |-> Rat(50000), startPayment |-> 1,
        endPayment |-> <<2>>, frequency |-> <<1>>, enabled |-> "true"] >>,
    << [type |-> "recurring", amount |-> Rat(50000), startPayment |-> 12,
        endPayment |-> <<13>>, frequency |-> <<>>, enabled |-> "true"] >>,
    << [type |-> "one-time", amount |-> Rat(10000), startPayment |-> 12,
        endPayment |-> <<>>, frequency |-> <<>>, enabled |-> "undefined"] >>,
    << [type |-> "recurring", amount |-> Rat(45000), startPayment |-> 10,
        endPayment |-> <<14>>, frequency |-> <<1>>, enabled |-> "true"] >> }

LongLimits ==
  { NoLimits,
    [set |-> TRUE, lumpSumLimitPercent |-> Rat(15),
     paymentIncreaseLimitPercent |-> Rat(15), resetPeriod |-> "calendar"],
    [set |-> TRUE, lumpSumLimitPercent |-> Rat(15),
     paymentIncreaseLimitPercent |-> Rat(15), resetPeriod |-> "anniversary"] }

LongRuns ==
  [purchasePrice : {Rat(625000)},
   downPaymentPercent : {Rat(10)},
   additionalFinancing : {Zero},
   cmhcPstRate : {Zero},
   principal : {Rat(562500)},
   amortizationYears : {Rat(2)},
   paymentFrequency : {"monthly"},
   startDate : StartDates,
   renewalPeriods : {<< [startPayment |-> 1, annualRate |-> Zero,
                         termYears |-> 5] >>},
   additionalPayments : LongExtras,
   prepaymentLimits : LongLimits]

ShortRuns ==
  UNION { [purchasePrice : {b.purchasePrice},
           downPaymentPercent : {b.downPaymentPercent},
           additionalFinancing : {Zero},
           cmhcPstRate : {Zero},
           principal : {b.principal},
           amortizationYears : AmortizationYearsFor(f),
           paymentFrequency : {f},
           startDate : StartDates,
           renewalPeriods : SeqsUpTo(RenewalPeriodsFor(f), MaxTerms),
           additionalPayments : AdditionalPaymentChoices,
           prepaymentLimits : PrepaymentLimitChoices]
          : b \in Purchases, f \in PaymentFrequency }

ParamSpace == ShortRuns \cup LongRuns

\* The tracker state of the previous run kept instead of lines 224-228.
localsCarried ==
  [payments |-> <<>>,
   totalInterestPaid |-> Zero,
   totalAdditionalPayments |-> Zero,
   prepaymentLimitViolations |-> prepaymentLimitViolations,
   currentPeriodLumpSum |-> currentPeriodLumpSum,
   currentPeriodIdentifier |-> currentPeriodIdentifier]

\* Lines 217-228: the ledger and the accumulators are locals of the call,
\* created empty and zero.
localsAtStart ==
  [payments |-> <<>>,
   totalInterestPaid |-> Zero,
   totalAdditionalPayments |-> Zero,
   prepaymentLimitViolations |-> 0,
   currentPeriodLumpSum |-> Zero,
   currentPeriodIdentifier |-> NoPeriod]

\* Lines 196-233 for the argument p: validation, financing, initial values
\* of the locals.
StartWith(p) ==
  /\ arguments' = p
  /\ IF Len(p.renewalPeriods) = 0
       THEN /\ pc' = "error"
            /\ error' = "At least one renewal period must be specified"
            /\ insuranceDetails' = [threw |-> FALSE]
            /\ totalPayments' = 0
            /\ balance' = Zero
            /\ paymentNumber' = 0
            /\ sortedPeriods' = <<>>
            /\ params' = p
       ELSE LET details ==
                  calculateMortgageWithInsurance(
                    p.purchasePrice, p.downPaymentPercent,
                    p.additionalFinancing, p.cmhcPstRate)
            IN  IF details.threw
                  THEN /\ pc' = "error"
                       /\ error' = "Down payment must be at least 5%"
                       /\ insuranceDetails' = [threw |-> FALSE]
                       /\ totalPayments' = 0
                       /\ balance' = Zero
                       /\ paymentNumber' = 0
                       /\ sortedPeriods' = <<>>
                       /\ params' = p
                  ELSE /\ pc' = "term"
                       /\ insuranceDetails' = details
                       /\ totalPayments' =
                            getPaymentCount(p.amortizationYears,
                                            p.paymentFrequency)
                       /\ balance' = p.principal
                       /\ paymentNumber' = 1
                       /\ sortedPeriods' = SortByStart(p.renewalPeriods)
                       /\ params' =
                            [p EXCEPT !.renewalPeriods =
                                        renewalPeriodsAfterSort(@)]
                       /\ error' = ""
  /\ payments' = localsAtStart.payments
  /\ totalInterestPaid' = localsAtStart.totalInterestPaid
  /\ totalAdditionalPayments' = localsAtStart.totalAdditionalPayments
  /\ prepaymentLimitViolations' = localsAtStart.prepaymentLimitViolations
  /\ currentPeriodLumpSum' = localsAtStart.currentPeriodLumpSum
  /\ currentPeriodIdentifier' = localsAtStart.currentPeriodIdentifier
  /\ termIndex' = 0
  /\ term' = NoTerm
  /\ i' = 0
  /\ schedule' = [returned |-> FALSE]
  /\ UNCHANGED <<finCall, extraCall, app, storage>>

\* The first call of the engine.
Start ==
  /\ Idle
  /\ \E p \in ParamSpace : StartWith(p)
  /\ history' = history

MaxCalls == 3

\* The arguments of p with another paymentIncreaseLimitPercent.
otherIncreaseLimit(p) ==
  IF p.prepaymentLimits.set
    THEN [p EXCEPT !.prepaymentLimits.paymentIncreaseLimitPercent =
                     IF @ = Rat(15) THEN Rat(50) ELSE Rat(15)]
    ELSE p

\* The arguments of p with bi-weekly and accelerated-bi-weekly exchanged.
otherBiWeekly(p) ==
  [p EXCEPT !.paymentFrequency =
              CASE @ = "bi-weekly" -> "accelerated-bi-weekly"
                [] @ = "accelerated-bi-weekly" -> "bi-weekly"
                [] OTHER -> @]

\* The arguments of p without additional payments.
withoutAdditionalPayments(p) == [p EXCEPT !.additionalPayments = <<>>]

\* Arguments that are p, or p with one field changed.
Variants(p) ==
  {p, otherIncreaseLimit(p), otherBiWeekly(p), withoutAdditionalPayments(p)}

\* The arguments a further call is made with: variants of those of the call
\* that has returned and of those of the first call.
NextArguments ==
  Variants(params) \cup
    (IF history = <<>> THEN {} ELSE Variants(history[1].params))

\* The runs that further calls follow: one term, insurance-free purchase.
Comparable(p) ==
  /\ p \in ShortRuns
  /\ Len(p.renewalPeriods) = 1
  /\ p.downPaymentPercent = Rat(20)

\* A further call of the engine after one has returned; history keeps the
\* arguments and the schedule of every call that returned before.
StartAgain ==
  /\ pc = "done"
  /\ Len(history) < MaxCalls - 1
  /\ \/ history = <<>> /\ Comparable(params)
     \/ history # <<>>
  /\ \E p \in NextArguments : StartWith(p)
  /\ history' = Append(history, [params |-> params, schedule |-> schedule])

\* Lines 236-254: the head of the outer loop for one term (termIndex is the
\* code's 0-based index).
termEndPayment(periods, k, total) ==
  IF k + 2 <= Len(periods) THEN periods[k + 2].startPayment - 1 ELSE total

\* The payment count taken from the term's own length instead of the
\* remaining horizon.
paymentsRemainingAsTermLength(total, number) ==
  IF termIndex < Len(sortedPeriods)
    THEN termEndPayment(sortedPeriods, termIndex, total)
           - sortedPeriods[termIndex + 1].startPayment + 1
    ELSE total - number + 1

paymentsRemainingAt(total, number) == total - number + 1

EnterTerm ==
  /\ pc = "term"
  /\ termIndex < Len(sortedPeriods)
  /\ \E periodicRate \in
          {getPeriodicRate(sortedPeriods[termIndex + 1].annualRate,
                           params.paymentFrequency)} :
     LET this == sortedPeriods[termIndex + 1]
         paymentsInTerm ==
           termEndPayment(sortedPeriods, termIndex, totalPayments)
             - this.startPayment + 1
         paymentsRemaining == paymentsRemainingAt(totalPayments, paymentNumber)
     IN  term' = [paymentsInTerm |-> paymentsInTerm,
                  periodicRate |-> periodicRate,
                  payment |-> calculatePayment(balance, periodicRate,
                                               paymentsRemaining)]
  /\ i' = 0
  /\ pc' = "pay"
  /\ UNCHANGED <<arguments, params, error, insuranceDetails, payments,
                 totalPayments,
                 balance, totalInterestPaid, totalAdditionalPayments,
                 paymentNumber, prepaymentLimitViolations, currentPeriodLumpSum,
                 currentPeriodIdentifier, sortedPeriods, termIndex, schedule,
                 finCall, extraCall, history, app, storage>>

\* Line 236: the outer loop ends when every term has been processed.
TermsExhausted ==
  /\ pc = "term"
  /\ termIndex >= Len(sortedPeriods)
  /\ pc' = "summary"
  /\ UNCHANGED <<arguments, params, error, insuranceDetails, payments,
                 totalPayments,
                 balance, totalInterestPaid, totalAdditionalPayments,
                 paymentNumber, prepaymentLimitViolations, currentPeriodLumpSum,
                 currentPeriodIdentifier, sortedPeriods, termIndex, term, i,
                 schedule, finCall, extraCall, history, app, storage>>

\* Lines 258-263: the split of one payment.
interestPaymentOf(bal, periodicRate) == RMul(bal, periodicRate)

principalPaymentOf(payment, interestPayment) ==
  IF IsFinite(payment) THEN RSub(payment, interestPayment) ELSE payment

\* The principal portion without the cap of line 262.
actualPrincipalPaymentUncapped(principalPayment, bal) ==
  IF IsFinite(principalPayment) THEN principalPayment ELSE bal

\* Line 262: Math.min(principalPayment, balance).
actualPrincipalPaymentOf(principalPayment, bal) == RMin(principalPayment, bal)

\* Line 263.
actualPaymentOf(actualPrincipalPayment, interestPayment) ==
  RAdd(actualPrincipalPayment, interestPayment)

\* The additional payment applied in full, without the cap of line 270.
actualAdditionalPaymentUncapped(additionalPayment, bal) == additionalPayment

\* Line 270: Math.min(additionalPayment, balance).
actualAdditionalPaymentOf(additionalPayment, bal) == RMin(additionalPayment, bal)

\* The balance update with the second subtraction (line 271) left out.
balanceAfterNoExtra(bal, actualPrincipalPayment, actualAdditionalPayment) ==
  RSub(bal, actualPrincipalPayment)

\* The balance update with the first subtraction (line 265) left out.
balanceAfterExtraOnly(bal, actualPrincipalPayment, actualAdditionalPayment) ==
  RSub(bal, actualAdditionalPayment)

\* Lines 265 and 271: the two subtractions from the balance.
balanceAfter(bal, actualPrincipalPayment, actualAdditionalPayment) ==
  RSub(RSub(bal, actualPrincipalPayment), actualAdditionalPayment)

\* Line 257: the condition of the inner loop.
InnerLoopRuns == i < term.paymentsInTerm /\ RLess(Tolerance, balance)

\* Lines 324 and 328: if (balance < 0.01) break.
PaidOff(bal) == RLess(bal, Tolerance)

\* Limits of 15% a calendar year assumed when none are supplied.
prepaymentLimitsDefaulted(p) ==
  IF p.prepaymentLimits.set THEN p.prepaymentLimits
  ELSE [set |-> TRUE, lumpSumLimitPercent |-> Rat(15),
        paymentIncreaseLimitPercent |-> Rat(15), resetPeriod |-> "calendar"]

\* Line 207: the optional prepaymentLimits of the arguments.
prepaymentLimitsOf(p) == p.prepaymentLimits

\* The limit check without the test of the applied amount.
limitTrackedWithoutAmount(limits, actualAdditionalPayment) == limits.set

\* Line 281: if (prepaymentLimits && actualAdditionalPayment > 0).
limitTracked(limits, actualAdditionalPayment) ==
  limits.set /\ RLess(Zero, actualAdditionalPayment)

\* The accumulator without the restart at a new period.
lumpSumNeverReset(periodId, currentId, currentLumpSum, actualAdditionalPayment) ==
  RAdd(currentLumpSum, actualAdditionalPayment)

\* Lines 289-295: the accumulator restarts when the period changes, then
\* takes the payment's additional amount.
lumpSumAfter(periodId, currentId, currentLumpSum, actualAdditionalPayment) ==
  RAdd(IF periodId # currentId THEN Zero ELSE currentLumpSum,
       actualAdditionalPayment)

\* The ceiling taken from the smaller of the two percentages.
annualLimitFromBothPercents(principal, limits) ==
  RMul(principal,
       RDiv(RMin(limits.lumpSumLimitPercent,
                 limits.paymentIncreaseLimitPercent), Rat(100)))

\* Lines 298-299.
annualLumpSumLimitOf(principal, limits) ==
  RMul(principal, RDiv(limits.lumpSumLimitPercent, Rat(100)))

\* The counter incremented at every payment.
violationsAlways(count, exceedsLimit) == count + 1

\* Lines 302-305.
violationsAfter(count, exceedsLimit) ==
  IF exceedsLimit THEN count + 1 ELSE count

\* Lines 257-325, one pass of the inner loop.  The amounts are bound one after
\* the other, as the statements of the loop body compute them.
Pay ==
  /\ pc = "pay"
  /\ InnerLoopRuns
  /\ \E interestPayment \in {interestPaymentOf(balance, term.periodicRate)} :
     \E principalPayment \in
          {principalPaymentOf(term.payment, interestPayment)} :
     \E actualPrincipalPayment \in
          {actualPrincipalPaymentOf(principalPayment, balance)} :
     \E balance1 \in {RSub(balance, actualPrincipalPayment)} :
     \E additionalPayment \in
          {getAdditionalPaymentAmount(paymentNumber,
                                      params.additionalPayments)} :
     \E actualAdditionalPayment \in
          {actualAdditionalPaymentOf(additionalPayment, balance1)} :
     \E balance2 \in {balanceAfter(balance, actualPrincipalPayment,
                                   actualAdditionalPayment)} :
     LET this == sortedPeriods[termIndex + 1]
         actualPayment ==
           actualPaymentOf(actualPrincipalPayment, interestPayment)
         paymentDate ==
           AddDays(params.startDate,
                   getDaysForPayment(paymentNumber, params.paymentFrequency))
         limits == prepaymentLimitsOf(params)
         tracked == limitTracked(limits, actualAdditionalPayment)
         periodId ==
           IF tracked
             THEN getPeriodIdentifier(paymentDate, params.startDate,
                                      limits.resetPeriod)
             ELSE currentPeriodIdentifier
         lumpSum ==
           IF tracked
             THEN lumpSumAfter(periodId, currentPeriodIdentifier,
                               currentPeriodLumpSum, actualAdditionalPayment)
             ELSE currentPeriodLumpSum
         annualLumpSumLimit ==
           IF tracked
             THEN annualLumpSumLimitOf(params.principal, limits)
             ELSE Zero
         exceedsLimit == tracked /\ RLess(annualLumpSumLimit, lumpSum)
     IN  /\ totalInterestPaid' = RAdd(totalInterestPaid, interestPayment)
         /\ totalAdditionalPayments' =
              RAdd(totalAdditionalPayments, actualAdditionalPayment)
         /\ balance' = balance2
         /\ currentPeriodIdentifier' = periodId
         /\ currentPeriodLumpSum' = lumpSum
         /\ prepaymentLimitViolations' =
              violationsAfter(prepaymentLimitViolations, exceedsLimit)
         /\ payments' = Append(payments,
              [paymentNumber |-> paymentNumber,
               paymentDate |-> paymentDate,
               payment |-> actualPayment,
               principal |-> actualPrincipalPayment,
               interest |-> interestPayment,
               additionalPayment |-> actualAdditionalPayment,
               balance |-> RMax(Zero, balance2),
               interestRate |-> this.annualRate,
               termNumber |-> termIndex + 1,
               exceedsLimit |-> exceedsLimit])
         /\ paymentNumber' = paymentNumber + 1
         /\ IF PaidOff(balance2)
              THEN pc' = "summary" /\ i' = i
              ELSE pc' = "pay" /\ i' = i + 1
  /\ params' = [params EXCEPT !.startDate = startDateAfterPayment(@)]
  /\ UNCHANGED <<arguments, error, insuranceDetails, totalPayments,
                 sortedPeriods, termIndex, term, schedule, finCall, extraCall,
                 history, app, storage>>

\* Lines 257 and 328: the inner loop has ended without a break; the outer
\* loop breaks when the balance is below the tolerance and otherwise goes on
\* to the next term.
EndTerm ==
  /\ pc = "pay"
  /\ ~InnerLoopRuns
  /\ IF PaidOff(balance)
       THEN pc' = "summary" /\ termIndex' = termIndex
       ELSE pc' = "term" /\ termIndex' = termIndex + 1
  /\ UNCHANGED <<arguments, params, error, insuranceDetails, payments,
                 totalPayments,
                 balance, totalInterestPaid, totalAdditionalPayments,
                 paymentNumber, prepaymentLimitViolations, currentPeriodLumpSum,
                 currentPeriodIdentifier, sortedPeriods, term, i, schedule,
                 finCall, extraCall, history, app, storage>>

(***************************************************************************)
(* Lines 336-372: the schedule without additional payments.  st is         *)
(* [balanceWithout, totalInterestWithout, currentPaymentNumber] together   *)
(* with the periodicRate and the payment of the term being run.            *)
(***************************************************************************)
\* Line 360: the condition of the inner while loop.
WithoutRuns(st, endPayment, total) ==
  /\ st.currentPaymentNumber <= endPayment
  /\ RLess(Tolerance, st.balanceWithout)
  /\ st.currentPaymentNumber <= total

\* Lines 361-367: the body of the inner while loop.
WithoutStep(st) ==
  LET interestPayment == RMul(st.balanceWithout, st.periodicRate)
      principalPayment == principalPaymentOf(st.payment, interestPayment)
      actualPrincipalPayment == RMin(principalPayment, st.balanceWithout)
  IN  [st EXCEPT
         !.balanceWithout = RSub(st.balanceWithout, actualPrincipalPayment),
         !.totalInterestWithout =
            RAdd(st.totalInterestWithout, interestPayment),
         !.currentPaymentNumber = st.currentPaymentNumber + 1]

\* Lines 360-368: the inner while loop, at most n passes of it.  The passes
\* are run as two halves one after the other.
RECURSIVE WithoutPayments(_, _, _, _)
WithoutPayments(st, n, endPayment, total) ==
  IF n <= 0 \/ ~WithoutRuns(st, endPayment, total) THEN st
  ELSE IF n = 1 THEN WithoutStep(st)
  ELSE WithoutPayments(WithoutPayments(st, n \div 2, endPayment, total),
                       n - n \div 2, endPayment, total)

\* Lines 346-369: the loop over the terms.
RECURSIVE WithoutTerms(_, _, _, _, _)
WithoutTerms(st, k, periods, total, frequency) ==
  IF k < Len(periods) /\ RLess(Tolerance, st.balanceWithout)
    THEN LET endPayment == termEndPayment(periods, k, total)
             paymentsRemaining ==
               paymentsRemainingAt(total, st.currentPaymentNumber)
             periodicRate == getPeriodicRate(periods[k + 1].annualRate, frequency)
         IN  WithoutTerms(
               WithoutPayments(
                 [st EXCEPT
                    !.periodicRate = periodicRate,
                    !.payment = calculatePayment(st.balanceWithout,
                                                 periodicRate,
                                                 paymentsRemaining)],
                 endPayment - st.currentPaymentNumber + 1, endPayment, total),
               k + 1, periods, total, frequency)
    ELSE st

totalInterestWithoutExtra(principal, periods, total, frequency) ==
  WithoutTerms([balanceWithout |-> principal,
                totalInterestWithout |-> Zero,
                currentPaymentNumber |-> 1,
                periodicRate |-> Zero,
                payment |-> Zero],
               0, periods, total, frequency).totalInterestWithout

\* Line 378: payments.reduce((sum, p) => sum + p.payment, 0).
SumPayment(ps) == RSum([k \in 1..Len(ps) |-> ps[k].payment])

\* Lines 331-334.
actualPayoffMonthsOf(count, frequency) ==
  Round(RMul(Frac(count, getPaymentsPerYear(frequency)), Rat(12)))

\* Lines 331-400: the savings figures and the returned schedule.
Summarize ==
  /\ pc = "summary"
  /\ \E totalInterestWithout \in
          {IF RLess(Zero, totalAdditionalPayments)
             THEN totalInterestWithoutExtra(
                    params.principal, sortedPeriods, totalPayments,
                    params.paymentFrequency)
             ELSE Zero} :
     LET actualPayoffMonths ==
           actualPayoffMonthsOf(Len(payments), params.paymentFrequency)
         originalPayoffMonths == RMul(params.amortizationYears, Rat(12))
         timeSaved == RSub(originalPayoffMonths, Rat(actualPayoffMonths))
         interestSaved ==
           IF RLess(Zero, totalAdditionalPayments)
             THEN RMax(Zero, RSub(totalInterestWithout, totalInterestPaid))
             ELSE Zero
     IN  schedule' =
           [returned |-> TRUE,
            payments |-> payments,
            totalInterest |-> totalInterestPaid,
            totalPrincipal |-> params.principal,
            totalPayments |-> SumPayment(payments),
            summary |->
              [purchasePrice |-> params.purchasePrice,
               downPayment |-> insuranceDetails.downPayment,
               downPaymentPercent |-> params.downPaymentPercent,
               mortgageAmount |-> insuranceDetails.mortgageAmount,
               cmhcInsurance |-> insuranceDetails.cmhcInsurance,
               cmhcPremiumRate |-> insuranceDetails.cmhcPremiumRate,
               cmhcPst |-> insuranceDetails.cmhcPst,
               cmhcPstRate |-> insuranceDetails.cmhcPstRate,
               additionalFinancing |-> insuranceDetails.additionalFinancing,
               originalPrincipal |-> params.principal,
               totalInterestPaid |-> totalInterestPaid,
               totalPaid |-> RAdd(params.principal, totalInterestPaid),
               totalAdditionalPayments |-> totalAdditionalPayments,
               interestSaved |-> interestSaved,
               timeSaved |-> timeSaved,
               amortizationYears |-> params.amortizationYears,
               actualPayoffMonths |-> actualPayoffMonths,
               paymentFrequency |-> params.paymentFrequency,
               limitsReported |-> prepaymentLimitsOf(params).set,
               prepaymentLimitViolations |->
                 IF prepaymentLimitsOf(params).set
                   THEN prepaymentLimitViolations ELSE 0]]
  /\ pc' = "done"
  /\ UNCHANGED <<arguments, params, error, insuranceDetails, payments,
                 totalPayments,
                 balance, totalInterestPaid, totalAdditionalPayments,
                 paymentNumber, prepaymentLimitViolations, currentPeriodLumpSum,
                 currentPeriodIdentifier, sortedPeriods, termIndex, term, i,
                 finCall, extraCall, history, app, storage>>

(***************************************************************************)
(* calculateMortgageWithInsurance and getAdditionalPaymentAmount called on *)
(* their own.                                                              *)
(***************************************************************************)
PurchasePrices == {Rat(1000), Rat(625000)}

\* Down-payment percentages on and next to each boundary of the premium
\* table.
DownPaymentPercents ==
  {Rat(0), Rat(4), Frac(499, 100), Rat(5), Frac(999, 100), Rat(10),
   Frac(1499, 100), Rat(15), Frac(1999, 100), Rat(20), Rat(25), Rat(100)}

AdditionalFinancings == {Zero, Rat(500)}
CmhcPstRates == {Zero, Frac(8, 100)}

ComputeFinancing ==
  /\ Idle
  /\ \E purchasePrice \in PurchasePrices,
        downPaymentPercent \in DownPaymentPercents,
        additionalFinancing \in AdditionalFinancings,
        cmhcPstRate \in CmhcPstRates :
       finCall' =
         [called |-> TRUE,
          purchasePrice |-> purchasePrice,
          downPaymentPercent |-> downPaymentPercent,
          additionalFinancing |-> additionalFinancing,
          cmhcPstRate |-> cmhcPstRate,
          result |-> calculateMortgageWithInsurance(
                       purchasePrice, downPaymentPercent,
                       additionalFinancing, cmhcPstRate)]
  /\ UNCHANGED <<engineVars, extraCall, app, storage>>

MaxPaymentNumber == 4
MaxRules == 2

\* Every shape of one rule, with start and end indexes up to 3; an end or a
\* frequency of 0 is what the code reads as not set.
RuleSpace ==
  [type : {"one-time", "recurring"},
   amount : {Rat(10), Rat(100)},
   startPayment : 1..3,
   endPayment : {<<>>, <<0>>, <<2>>, <<3>>},
   frequency : {<<>>, <<0>>, <<1>>, <<2>>},
   enabled : {"true", "false", "undefined"}]

\* The rules that longer lists are made of.
CoreRules ==
  { [type |-> "one-time", amount |-> Rat(1), startPayment |-> 2,
     endPayment |-> <<>>, frequency |-> <<>>, enabled |-> "true"],
    [type |-> "recurring", amount |-> Rat(10), startPayment |-> 1,
     endPayment |-> <<3>>, frequency |-> <<2>>, enabled |-> "undefined"],
    [type |-> "recurring", amount |-> Rat(100), startPayment |-> 2,
     endPayment |-> <<>>, frequency |-> <<>>, enabled |-> "true"],
    [type |-> "recurring", amount |-> Rat(1000), startPayment |-> 1,
     endPayment |-> <<>>, frequency |-> <<1>>, enabled |-> "false"] }

RuleLists == {<<r>> : r \in RuleSpace} \cup SeqsUpTo(CoreRules, MaxRules)

ResolveExtra ==
  /\ Idle
  /\ \E paymentNumberArg \in 1..MaxPaymentNumber, rules \in RuleLists :
       extraCall' =
         [called |-> TRUE,
          paymentNumber |-> paymentNumberArg,
          additionalPayments |-> rules,
          result |-> getAdditionalPaymentAmount(paymentNumberArg, rules)]
  /\ UNCHANGED <<engineVars, finCall, app, storage>>

(***************************************************************************)
(* App.tsx: the mount of the application.  app holds the profile store     *)
(* (localStorage), the profile parameter of the URL, the React state       *)
(* (savedProfiles, currentProfileId, and the profile whose data the form   *)
(* fields hold) and, in rendered, the state values of the render whose     *)
(* closures the running effects were created by: a state setter called in  *)
(* an effect changes the state of the next render, never those values.     *)
(* An absent string (null) is <<>>; userActed tells whether the user has   *)
(* picked a profile since the mount.                                       *)
(***************************************************************************)
MaxProfiles == 2
ProfileIds == 1..MaxProfiles

\* URLSearchParams(window.location.search).get('profile').
UrlChoices == {<<>>} \cup {<<id>> : id \in ProfileIds \cup {MaxProfiles + 1}}

\* Lines 8-33 and the first render: the useState initial values.
Mount ==
  /\ Idle
  /\ \E store \in SUBSET ProfileIds, url \in UrlChoices :
       app' = [phase |-> "load-profiles",
               store |-> store,
               urlAtStart |-> url,
               url |-> url,
               savedProfiles |-> {},
               currentProfileId |-> <<>>,
               form |-> <<>>,
               userActed |-> FALSE,
               rendered |-> [savedProfiles |-> {}, currentProfileId |-> <<>>]]
  /\ UNCHANGED <<engineVars, finCall, extraCall, storage>>

\* Lines 37-39: setSavedProfiles(getProfiles()).
LoadProfilesOnMount ==
  /\ app.phase = "load-profiles"
  /\ app' = [app EXCEPT !.savedProfiles = app.store, !.phase = "load-url"]
  /\ UNCHANGED <<engineVars, finCall, extraCall, storage>>

\* Lines 173-193: handleLoadProfile(profileId) of the render a: the profile
\* is looked up in that render's savedProfiles.
handleLoadProfile(a, profileId) ==
  IF profileId \in a.rendered.savedProfiles
    THEN [a EXCEPT !.form = <<profileId>>, !.currentProfileId = <<profileId>>]
    ELSE a

\* Lines 53-66: the profile parameter of the URL is looked up in the store.
LoadProfileFromUrl ==
  /\ app.phase = "load-url"
  /\ LET after ==
           IF app.url = <<>> THEN app
           ELSE IF app.url[1] \in app.store
             THEN handleLoadProfile(app, app.url[1])
             ELSE [app EXCEPT !.url = <<>>]
     IN  app' = [after EXCEPT !.phase = "update-url"]
  /\ UNCHANGED <<engineVars, finCall, extraCall, storage>>

\* Lines 69-79: the URL follows the currentProfileId of the render.
UpdateUrl ==
  /\ app.phase = "update-url"
  /\ app' = [app EXCEPT !.url = app.rendered.currentProfileId,
                        !.phase = "committed"]
  /\ UNCHANGED <<engineVars, finCall, extraCall, storage>>

\* The state the setters have changed is rendered again; the effect of
\* lines 69-79 runs again when currentProfileId has changed (its dependency),
\* the mount effects do not.
Rerender ==
  /\ app.phase = "committed"
  /\ LET now == [savedProfiles |-> app.savedProfiles,
                 currentProfileId |-> app.currentProfileId]
     IN  app' = [app EXCEPT
                   !.rendered = now,
                   !.phase =
                     IF now.currentProfileId # app.rendered.currentProfileId
                       THEN "update-url" ELSE "settled"]
  /\ UNCHANGED <<engineVars, finCall, extraCall, storage>>

\* Lines 363-371 and 418: the user picks one of the listed profiles.
SelectProfile ==
  /\ app.phase = "settled"
  /\ \E id \in app.rendered.savedProfiles :
       app' = [handleLoadProfile(app, id) EXCEPT !.phase = "committed",
                                                 !.userActed = TRUE]
  /\ UNCHANGED <<engineVars, finCall, extraCall, storage>>

(***************************************************************************)
(* The profile store of lib/storage.ts.  storage.item is the value of      *)
(* localStorage under STORAGE_KEY, which only these functions write;       *)
(* storage.call is the last call with its argument, its result and the     *)
(* item before it; returned lists the profiles saveProfile has returned,   *)
(* removed the ids taken out of the list since.                            *)
(***************************************************************************)
MaxStorageCalls == 4
MaxSaved == 2

\* null, the result of a failed lookup.
Null == [null |-> TRUE]

\* JSON.stringify followed by JSON.parse, for a number: NaN and the
\* infinities are written as null.
JsonNumber(x) == IF x \in {"NaN", "Infinity", "-Infinity"} THEN "null" ELSE x

JsonProfile(p) == [p EXCEPT !.data.purchasePrice = JsonNumber(@)]

\* localStorage.setItem(STORAGE_KEY, JSON.stringify(profiles)), as
\* getProfiles parses it back.
setItem(profiles) ==
  [present |-> TRUE,
   value |-> [k \in 1..Len(profiles) |-> JsonProfile(profiles[k])]]

\* Lines 27-36.
getProfiles(item) == IF item.present THEN item.value ELSE <<>>

\* profiles.findIndex(p => p.id === id), 1-based; 0 when there is none.
findIndex(profiles, id) ==
  IF \E k \in 1..Len(profiles) : profiles[k].id = id
    THEN CHOOSE k \in 1..Len(profiles) :
           /\ profiles[k].id = id
           /\ \A h \in 1..(k - 1) : profiles[h].id # id
    ELSE 0

\* Lines 99-101: Date.now() with nine random base-36 digits, taken to differ
\* from every id generated before: the n-th id generated is n.
generateId(generated) == generated + 1

\* Lines 41-55.
saveProfile(item, profile, id, now) ==
  LET profiles == getProfiles(item)
      newProfile == [id |-> id, name |-> profile.name, createdAt |-> now,
                     updatedAt |-> now, data |-> profile.data]
  IN  [result |-> newProfile, item |-> setItem(Append(profiles, newProfile))]

\* An update that adds a profile when the id is not in the list.
updateProfileOrInsert(item, id, updates, now) ==
  saveProfile(item, [name |-> "b", data |-> [purchasePrice |-> "2000"]],
              id, now)

\* Lines 60-74; an absent key of updates is <<>>.
updateProfile(item, id, updates, now) ==
  LET profiles == getProfiles(item)
      index == findIndex(profiles, id)
  IN  IF index = 0
        THEN [result |-> Null, item |-> item]
        ELSE LET merged ==
                   [profiles[index] EXCEPT
                      !.name = IF updates.name = <<>> THEN @
                               ELSE updates.name[1],
                      !.data = IF updates.data = <<>> THEN @
                               ELSE updates.data[1],
                      !.updatedAt = now]
             IN  [result |-> merged,
                  item |-> setItem([profiles EXCEPT ![index] = merged])]

\* Lines 79-87.
deleteProfile(item, id) ==
  LET profiles == getProfiles(item)
      keep(p) == p.id # id
      filtered == SelectSeq(profiles, keep)
  IN  IF Len(filtered) = Len(profiles)
        THEN [result |-> FALSE, item |-> item]
        ELSE [result |-> TRUE, item |-> setItem(filtered)]

\* Lines 92-95.
getProfile(item, id) ==
  LET profiles == getProfiles(item)
      index == findIndex(profiles, id)
  IN  IF index = 0 THEN Null ELSE profiles[index]

\* Lines 106-108: localStorage.removeItem(STORAGE_KEY).
clearAllProfiles(item) == NoItem

\* The ids of the stored list.
StoredIds(item) ==
  {getProfiles(item)[k].id : k \in 1..Len(getProfiles(item))}

\* What saveProfile is called with, and what updateProfile is.
ProfileInputs ==
  [name : {"a"}, data : {[purchasePrice |-> "1000"], [purchasePrice |-> "NaN"]}]

ProfileUpdates ==
  [name : {<<>>, <<"b">>}, data : {<<>>, <<[purchasePrice |-> "2000"]>>}]

\* The ids the lookups are made with: those saveProfile can have returned
\* and one it never returns.
LookupIds == 1..(MaxSaved + 1)

\* A function of the store can be called: nothing else has been.
StoreCallable ==
  /\ pc = "idle"
  /\ ~finCall.called
  /\ ~extraCall.called
  /\ app = Unmounted
  /\ storage.calls < MaxStorageCalls

\* The store after a call of op with id that gave out.
AfterCall(op, id, out) ==
  [storage EXCEPT
     !.item = out.item,
     !.now = @ + 1,
     !.call = [op |-> op, id |-> id, result |-> out.result,
               before |-> storage.item],
     !.calls = @ + 1]

SaveProfile ==
  /\ StoreCallable
  /\ storage.generated < MaxSaved
  /\ \E profile \in ProfileInputs :
       LET id == generateId(storage.generated)
           out == saveProfile(storage.item, profile, id, storage.now)
       IN  storage' = [AfterCall("saveProfile", id, out) EXCEPT
                         !.generated = @ + 1,
                         !.returned = Append(@, out.result)]
  /\ UNCHANGED <<engineVars, finCall, extraCall, app>>

UpdateProfile ==
  /\ StoreCallable
  /\ \E id \in LookupIds, updates \in ProfileUpdates :
       storage' =
         AfterCall("updateProfile", id,
                   updateProfile(storage.item, id, updates, storage.now))
  /\ UNCHANGED <<engineVars, finCall, extraCall, app>>

DeleteProfile ==
  /\ StoreCallable
  /\ \E id \in LookupIds :
       LET out == deleteProfile(storage.item, id)
       IN  storage' = [AfterCall("deleteProfile", id, out) EXCEPT
                         !.removed = IF out.result THEN @ \cup {id} ELSE @]
  /\ UNCHANGED <<engineVars, finCall, extraCall, app>>

GetProfile ==
  /\ StoreCallable
  /\ \E id \in LookupIds :
       storage' =
         AfterCall("getProfile", id,
                   [result |-> getProfile(storage.item, id),
                    item |-> storage.item])
  /\ UNCHANGED <<engineVars, finCall, extraCall, app>>

ClearAllProfiles ==
  /\ StoreCallable
  /\ storage' =
       [AfterCall("clearAllProfiles", 0,
                  [result |-> Null, item |-> clearAllProfiles(storage.item)])
          EXCEPT !.removed = @ \cup StoredIds(storage.item)]
  /\ UNCHANGED <<engineVars, finCall, extraCall, app>>

Init == Fresh

Next ==
  \/ Start \/ StartAgain \/ EnterTerm \/ TermsExhausted \/ Pay \/ EndTerm \/ Summarize
  \/ ComputeFinancing
  \/ ResolveExtra
  \/ Mount \/ LoadProfilesOnMount \/ LoadProfileFromUrl \/ UpdateUrl \/ Rerender
  \/ SelectProfile
  \/ SaveProfile \/ UpdateProfile \/ DeleteProfile \/ GetProfile
  \/ ClearAllProfiles

Spec == Init /\ [][Next]_vars

(***************************************************************************)
(* Properties.                                                             *)
(***************************************************************************)
\* The engine has been called and did not throw.
Running == pc \in {"term", "pay", "summary", "done"}

\* The balance before ledger entry idx: the previous entry's balance, or the
\* principal the run started from.
BalanceBefore(idx) ==
  IF idx = 1 THEN params.principal ELSE payments[idx - 1].balance

\* C1: every ledger entry's remainingBalance is the previous entry's
\* remainingBalance (the starting principal for entry 1) minus the entry's
\* principal portion minus its extra payment, floored at 0.
C1_BalanceRecurrence ==
  Running =>
    \A idx \in 1..Len(payments) :
      payments[idx].balance =
        RMax(Zero, RSub(RSub(BalanceBefore(idx), payments[idx].principal),
                        payments[idx].additionalPayment))

C1_Witness ==
  /\ Running
  /\ Len(payments) >= 2
  /\ RLess(Zero, payments[2].additionalPayment)
  /\ RLess(Zero, payments[2].balance)

\* The inputs claim C2 calls valid.
C2_ValidInputs ==
  /\ RLess(Zero, params.purchasePrice)
  /\ RLeq(Rat(5), params.downPaymentPercent)
  /\ RLess(Zero, params.amortizationYears)
  /\ Len(params.renewalPeriods) > 0
  /\ \A k \in 1..Len(params.renewalPeriods) :
       /\ params.renewalPeriods[k].startPayment > 0
       /\ RLeq(Zero, params.renewalPeriods[k].annualRate)
  /\ \A k \in 1..Len(params.additionalPayments) :
       RLeq(Zero, params.additionalPayments[k].amount)

C2_NonIncreasing ==
  \A idx \in 2..Len(payments) :
    RLeq(payments[idx].balance, payments[idx - 1].balance)

\* C2: for all valid inputs the returned ledger is non-empty, its
\* remainingBalance never increases and its final remainingBalance is at
\* most 0.01.
C2_NonEmptyPaidOff ==
  (pc = "done" /\ C2_ValidInputs) =>
    /\ Len(schedule.payments) > 0
    /\ C2_NonIncreasing
    /\ RLeq(schedule.payments[Len(schedule.payments)].balance, Tolerance)

\* C3: the ledger is never longer than the nominal payment count.
C3_LengthBound == Running => Len(payments) <= totalPayments

\* The level payment of the annuity formula for balance bal, periodic rate r
\* and n payments; a division by 0 gives Infinity.
LevelPayment(bal, r, n) ==
  IF r = Zero THEN RDiv(bal, Rat(n))
  ELSE LET growth == RPow(RAdd(Rat(1), r), n)
       IN  RDiv(RMul(bal, RMul(r, growth)), RSub(growth, Rat(1)))

\* The index of the first ledger entry of the term entry idx belongs to.
FirstOfTerm(idx) ==
  CHOOSE j \in 1..idx :
    /\ payments[j].termNumber = payments[idx].termNumber
    /\ \A h \in 1..(j - 1) : payments[h].termNumber # payments[idx].termNumber

\* The periodic rate and the level payment of the term entry idx belongs to.
RateOfEntry(idx) ==
  getPeriodicRate(sortedPeriods[payments[idx].termNumber].annualRate,
                  params.paymentFrequency)

LevelPaymentOfEntry(idx) ==
  LevelPayment(BalanceBefore(FirstOfTerm(idx)), RateOfEntry(idx),
               totalPayments - FirstOfTerm(idx) + 1)

\* C4: in every ledger entry the interest portion is the balance before the
\* payment times the periodic rate of the entry's term, the principal
\* portion is the smaller of (level payment - interest) and the balance
\* before the payment, and the total payment is principal + interest, the
\* extra payment not being part of it.
C4_PaymentSplit ==
  Running =>
    \A idx \in 1..Len(payments) :
      LET before == BalanceBefore(idx)
          interest == RMul(before, RateOfEntry(idx))
          level == LevelPaymentOfEntry(idx)
          due == IF IsFinite(level) THEN RSub(level, interest) ELSE level
          principal == IF IsFinite(due) /\ RLess(due, before) THEN due
                                                             ELSE before
      IN  /\ payments[idx].interest = interest
          /\ payments[idx].principal = principal
          /\ payments[idx].payment = RAdd(principal, interest)

\* An entry with interest whose level payment would overpay the balance left
\* by an earlier extra payment, and an entry that carries an extra payment.
C4_Witness ==
  /\ pc = "done"
  /\ \E idx \in 2..Len(payments) :
       /\ RLess(Zero, payments[idx].interest)
       /\ IsFinite(LevelPaymentOfEntry(idx))
       /\ RLess(payments[idx].payment, LevelPaymentOfEntry(idx))
  /\ \E idx \in 1..Len(payments) :
       /\ RLess(Zero, payments[idx].additionalPayment)
       /\ RLess(Zero, payments[idx].interest)

\* The premium rate the table gives for down-payment percentage p.
TableRate(p) ==
  IF RLeq(Rat(20), p) THEN Zero
  ELSE IF RLeq(Rat(15), p) THEN Frac(280, 10000)
  ELSE IF RLeq(Rat(10), p) THEN Frac(310, 10000)
  ELSE Frac(400, 10000)

\* C5: the premium rate depends on the down-payment percentage p only:
\* 0 for p >= 20, 2.80% for 15 <= p < 20, 3.10% for 10 <= p < 15, 4.00% for
\* 5 <= p < 10; for p >= 20 the premium and the surtax are 0 whatever the
\* surtax rate.
C5_PremiumTable ==
  (finCall.called /\ RLeq(Rat(5), finCall.downPaymentPercent)) =>
    /\ ~finCall.result.threw
    /\ finCall.result.cmhcPremiumRate = TableRate(finCall.downPaymentPercent)
    /\ RLeq(Rat(20), finCall.downPaymentPercent) =>
         /\ finCall.result.cmhcInsurance = Zero
         /\ finCall.result.cmhcPst = Zero

C5_Witness ==
  /\ finCall.called
  /\ finCall.downPaymentPercent = Rat(20)
  /\ RLess(Zero, finCall.cmhcPstRate)
  /\ finCall.result.cmhcInsurance = Zero
  /\ finCall.result.cmhcPst = Zero

\* C6: the financing is loan = price x (1 - p/100), premium = loan x premium
\* rate, surtax = premium x surtax rate, total principal = loan + premium +
\* surtax + extra financing; the premium and the down payment do not depend
\* on the extra financing, and 625000 at 10% down gives a premium of 17437.50.
C6_Financing ==
  (finCall.called /\ ~finCall.result.threw) =>
    LET r == finCall.result
        share == RSub(Rat(1), RDiv(finCall.downPaymentPercent, Rat(100)))
        loan == RMul(finCall.purchasePrice, share)
        premium == RMul(loan, TableRate(finCall.downPaymentPercent))
        surtax == RMul(premium, finCall.cmhcPstRate)
    IN  /\ r.mortgageAmount = loan
        /\ r.downPayment = RSub(finCall.purchasePrice, loan)
        /\ r.cmhcInsurance = premium
        /\ r.cmhcPst = surtax
        /\ r.totalPrincipal =
             RAdd(RAdd(RAdd(loan, premium), surtax), finCall.additionalFinancing)
        /\ (finCall.purchasePrice = Rat(625000)
              /\ finCall.downPaymentPercent = Rat(10)) =>
             r.cmhcInsurance = Frac(1743750, 100)

C6_Witness ==
  /\ finCall.called
  /\ finCall.purchasePrice = Rat(625000)
  /\ finCall.downPaymentPercent = Rat(10)
  /\ RLess(Zero, finCall.additionalFinancing)
  /\ RLess(Zero, finCall.cmhcPstRate)
  /\ finCall.result.cmhcInsurance = Frac(1743750, 100)

\* C7: the engine throws, returning no schedule and no ledger, whenever the
\* term list is empty or the down-payment percentage is below 5, and the
\* financing computation on its own throws for a percentage below 5.
C7_InvalidInput ==
  /\ (pc # "idle" /\ (Len(params.renewalPeriods) = 0
                        \/ RLess(params.downPaymentPercent, Rat(5)))) =>
       /\ pc = "error"
       /\ error # ""
       /\ ~schedule.returned
       /\ payments = <<>>
  /\ (finCall.called /\ RLess(finCall.downPaymentPercent, Rat(5))) =>
       finCall.result = [threw |-> TRUE]

C7_Witness ==
  /\ pc = "error"
  /\ Len(params.renewalPeriods) > 0
  /\ RLess(params.downPaymentPercent, Rat(5))
  /\ error = "Down payment must be at least 5%"

\* The Insurance Calculator's result for the run's purchase parameters.
FinancingOfRun ==
  calculateMortgageWithInsurance(params.purchasePrice,
                                 params.downPaymentPercent,
                                 params.additionalFinancing, params.cmhcPstRate)

IssuedAtTermEntry == Len(payments) - i

\* C9: at the start of every term the level payment is recomputed from the
\* balance outstanding at that point and the number of payments remaining to
\* the end of the amortization horizon (nominal total minus payments already
\* issued), not from the term's own length.
C9_LevelPaymentPerTerm ==
  pc = "pay" =>
    LET issued == IssuedAtTermEntry
        outstanding == IF issued = 0 THEN params.principal
                                     ELSE payments[issued].balance
        rate == getPeriodicRate(sortedPeriods[termIndex + 1].annualRate,
                                params.paymentFrequency)
    IN  term.payment = LevelPayment(outstanding, rate, totalPayments - issued)

\* A second term entered after one payment of four, at another rate than the
\* first, and sized over the three payments that remain.
C9_Witness ==
  /\ pc = "pay"
  /\ termIndex = 1
  /\ i = 0
  /\ Len(payments) = 1
  /\ totalPayments = 4
  /\ sortedPeriods[1].annualRate # sortedPeriods[2].annualRate
  /\ payments[1].balance # params.principal
  /\ term.payment = LevelPayment(payments[1].balance, term.periodicRate, 3)

\* A rule that follows the data model: an end index and an interval that are
\* set are positive.
WellFormedRule(rule) ==
  /\ rule.endPayment # <<>> => rule.endPayment[1] > 0
  /\ rule.frequency # <<>> => rule.frequency[1] > 0

\* What one rule contributes at paymentIndex, as the contract states it.
RuleAmountAt(paymentIndex, rule) ==
  LET interval == IF rule.frequency = <<>> THEN 1 ELSE rule.frequency[1]
      inRange == /\ rule.startPayment <= paymentIndex
                 /\ (rule.endPayment = <<>>
                       \/ paymentIndex <= rule.endPayment[1])
      fires == \/ rule.type = "one-time" /\ paymentIndex = rule.startPayment
               \/ /\ rule.type = "recurring"
                  /\ (paymentIndex - rule.startPayment) % interval = 0
  IN  IF rule.enabled # "false" /\ inRange /\ fires THEN rule.amount ELSE Zero

RECURSIVE SumRuleAmounts(_, _, _)
SumRuleAmounts(paymentIndex, rules, k) ==
  IF k = 0 THEN Zero
  ELSE RAdd(SumRuleAmounts(paymentIndex, rules, k - 1),
            RuleAmountAt(paymentIndex, rules[k]))

\* C10: getAdditionalPaymentAmount(paymentIndex, rules) is the sum of amount
\* over the active rules with start <= paymentIndex and (end unset or
\* paymentIndex <= end), a one-time rule counting at paymentIndex = start
\* only and a recurring rule iff (paymentIndex - start) mod interval = 0,
\* interval defaulting to 1 and the end index included; a rule with
\* enabled = false contributes nothing.
C10_ExtraAmount ==
  (extraCall.called
     /\ \A k \in 1..Len(extraCall.additionalPayments) :
          WellFormedRule(extraCall.additionalPayments[k])) =>
    extraCall.result =
      SumRuleAmounts(extraCall.paymentNumber, extraCall.additionalPayments,
                     Len(extraCall.additionalPayments))

\* A recurring rule from 1 every 2 that ends at 3, asked at its end index.
C10_Witness ==
  /\ extraCall.called
  /\ extraCall.paymentNumber = 3
  /\ Len(extraCall.additionalPayments) = 1
  /\ extraCall.additionalPayments[1].type = "recurring"
  /\ extraCall.additionalPayments[1].enabled = "undefined"
  /\ extraCall.additionalPayments[1].startPayment = 1
  /\ extraCall.additionalPayments[1].endPayment = <<3>>
  /\ extraCall.additionalPayments[1].frequency = <<2>>
  /\ extraCall.result = extraCall.additionalPayments[1].amount

\* The reset period ledger entry idx falls in: the calendar year of its date,
\* or the number of whole years of (year, month) difference to the start date.
PeriodOfEntry(idx) ==
  LET date == payments[idx].paymentDate
      start == params.startDate
  IN  IF params.prepaymentLimits.resetPeriod = "calendar"
        THEN date.y
        ELSE ((date.y - start.y) * 12 + (date.m - start.m)) \div 12

\* The applied extra payments of entries 1..k in the period of entry idx.
ExtraInPeriodUpTo(idx, k) ==
  RSum([j \in 1..k |-> IF PeriodOfEntry(j) = PeriodOfEntry(idx)
                         THEN payments[j].additionalPayment ELSE Zero])

\* originalPrincipal x lumpSumLimitPercent / 100.
LumpSumCeiling ==
  RDiv(RMul(params.principal, params.prepaymentLimits.lumpSumLimitPercent),
       Rat(100))

\* C11: with limits configured, an entry is marked exceedsLimit iff its
\* applied extra payment is > 0 and the applied extra payments of all entries
\* so far in the same reset period, this one included, total strictly more
\* than originalPrincipal x lumpSumLimitPercent / 100; the total restarts
\* from 0 when the period changes.
C11_ExceedsLimit ==
  (Running /\ params.prepaymentLimits.set) =>
    \A idx \in 1..Len(payments) :
      payments[idx].exceedsLimit <=>
        /\ RLess(Zero, payments[idx].additionalPayment)
        /\ RLess(LumpSumCeiling, ExtraInPeriodUpTo(idx, idx))

\* Two extra payments in one anniversary year but two calendar years, each
\* below the ceiling: the second is marked under the anniversary policy.
C11_Witness ==
  /\ pc = "done"
  /\ params.prepaymentLimits.set
  /\ params.prepaymentLimits.resetPeriod = "anniversary"
  /\ Len(payments) >= 2
  /\ payments[1].paymentDate.y # payments[2].paymentDate.y
  /\ RLess(Zero, payments[1].additionalPayment)
  /\ RLess(payments[2].additionalPayment, LumpSumCeiling)
  /\ ~payments[1].exceedsLimit
  /\ payments[2].exceedsLimit

\* The ledger entries marked exceedsLimit.
MarkedEntries == {idx \in 1..Len(payments) : payments[idx].exceedsLimit}

\* C12: the summary's limit-violation count is the number of ledger entries
\* marked exceedsLimit; with two extra payments of 50000 in one anniversary
\* period and a 15% limit on principal 562500, only the second entry is
\* marked and the count is 1.
C12_ViolationCount ==
  /\ Running => prepaymentLimitViolations = Cardinality(MarkedEntries)
  /\ pc = "done" =>
       /\ schedule.summary.prepaymentLimitViolations =
            Cardinality(MarkedEntries)
       /\ \A j \in 1..Len(payments), k \in 1..Len(payments) :
            (/\ j < k
             /\ params.prepaymentLimits.set
             /\ params.prepaymentLimits.resetPeriod = "anniversary"
             /\ params.prepaymentLimits.lumpSumLimitPercent = Rat(15)
             /\ params.principal = Rat(562500)
             /\ PeriodOfEntry(j) = PeriodOfEntry(k)
             /\ payments[j].additionalPayment = Rat(50000)
             /\ payments[k].additionalPayment = Rat(50000)
             /\ Cardinality({h \in 1..Len(payments) :
                               RLess(Zero, payments[h].additionalPayment)}) = 2)
            => /\ MarkedEntries = {k}
               /\ schedule.summary.prepaymentLimitViolations = 1

C12_Witness ==
  /\ pc = "done"
  /\ params.prepaymentLimits.set
  /\ params.prepaymentLimits.resetPeriod = "anniversary"
  /\ params.principal = Rat(562500)
  /\ Len(payments) >= 2
  /\ payments[1].additionalPayment = Rat(50000)
  /\ payments[2].additionalPayment = Rat(50000)
  /\ MarkedEntries = {2}
  /\ schedule.summary.limitsReported
  /\ schedule.summary.prepaymentLimitViolations = 1

\* C13: when no PrepaymentLimits are supplied, no ledger entry carries
\* exceedsLimit, whatever the prepayment rules are, and no violation is
\* counted.
C13_NoLimitsNoFlags ==
  (Running /\ ~params.prepaymentLimits.set) =>
    /\ \A idx \in 1..Len(payments) : ~payments[idx].exceedsLimit
    /\ prepaymentLimitViolations = 0
    /\ pc = "done" =>
         /\ \A idx \in 1..Len(schedule.payments) :
              ~schedule.payments[idx].exceedsLimit
         /\ ~schedule.summary.limitsReported
         /\ schedule.summary.prepaymentLimitViolations = 0

\* A run without limits with an extra payment above 15% of the principal.
C13_Witness ==
  /\ pc = "done"
  /\ ~params.prepaymentLimits.set
  /\ \E idx \in 1..Len(payments) :
       RLess(RMul(params.principal, Frac(15, 100)),
             payments[idx].additionalPayment)

\* The earlier calls whose arguments are those of the current call without
\* its additional payments.
RunsWithoutExtras ==
  {k \in 1..Len(history) :
     history[k].params = [params EXCEPT !.additionalPayments = <<>>]}

\* C14: when the applied extra payments total more than 0, interestSaved is
\* max(0, I0 - I1), I1 the run's total interest and I0 the total interest of
\* the engine's run on the same arguments with an empty prepayment list;
\* when they total 0, interestSaved is 0.
C14_InterestSaved ==
  pc = "done" =>
    \A k \in RunsWithoutExtras :
      schedule.summary.interestSaved =
        IF RLess(Zero, schedule.summary.totalAdditionalPayments)
          THEN RMax(Zero, RSub(history[k].schedule.totalInterest,
                               schedule.totalInterest))
          ELSE Zero

\* C15: two calls of the engine with identical arguments, in any order
\* relative to calls with other arguments, return identical schedules: no
\* balance, accumulator or limit-tracker state carries over between runs.
C15_Idempotent ==
  pc = "done" =>
    \A k \in 1..Len(history) :
      history[k].params = params => history[k].schedule = schedule

\* A call with limits and a counted violation, a call with other arguments,
\* and the first call again.
C15_Witness ==
  /\ pc = "done"
  /\ Len(history) = 2
  /\ history[1].params = params
  /\ history[2].params # params
  /\ params.prepaymentLimits.set
  /\ schedule.summary.prepaymentLimitViolations > 0
  /\ Len(schedule.payments) >= 2

Unlabelled(summary) == [summary EXCEPT !.paymentFrequency = ""]

\* C17: a run with cadence accelerated-bi-weekly returns the same ledger and
\* the same summary figures as the run with cadence bi-weekly and otherwise
\* identical arguments; only the cadence label differs.
C17_AcceleratedIsBiWeekly ==
  pc = "done" =>
    \A k \in 1..Len(history) :
      (/\ history[k].params.paymentFrequency = "bi-weekly"
       /\ params = [history[k].params EXCEPT
                      !.paymentFrequency = "accelerated-bi-weekly"])
      => /\ schedule.payments = history[k].schedule.payments
         /\ schedule.totalInterest = history[k].schedule.totalInterest
         /\ schedule.totalPrincipal = history[k].schedule.totalPrincipal
         /\ schedule.totalPayments = history[k].schedule.totalPayments
         /\ Unlabelled(schedule.summary) =
              Unlabelled(history[k].schedule.summary)
         /\ schedule.summary.paymentFrequency = "accelerated-bi-weekly"
         /\ history[k].schedule.summary.paymentFrequency = "bi-weekly"

\* A bi-weekly run of four payments with interest and an extra payment,
\* followed by the accelerated run.
C17_Witness ==
  /\ pc = "done"
  /\ params.paymentFrequency = "accelerated-bi-weekly"
  /\ \E k \in 1..Len(history) :
       /\ history[k].params.paymentFrequency = "bi-weekly"
       /\ params = [history[k].params EXCEPT
                      !.paymentFrequency = "accelerated-bi-weekly"]
  /\ Len(schedule.payments) >= 3
  /\ RLess(Zero, schedule.totalInterest)
  /\ RLess(Zero, schedule.summary.totalAdditionalPayments)

\* C18: when the application starts with the URL parameter profile=<id> and
\* a profile with that id is in the local profile store, the profile's
\* parameters are loaded into the form state, the current profile id becomes
\* <id>, and the parameter stays in the URL.
C18_UrlProfileLoaded ==
  (/\ app.phase = "settled"
   /\ ~app.userActed
   /\ app.urlAtStart # <<>>
   /\ app.urlAtStart[1] \in app.store)
  => /\ app.form = app.urlAtStart
     /\ app.currentProfileId = app.urlAtStart
     /\ app.url = app.urlAtStart

\* The first and the last payment index of the term at 1-based position k of
\* the sorted terms.
TermRange(k) ==
  [start |-> sortedPeriods[k].startPayment,
   end |-> IF k < Len(sortedPeriods)
             THEN sortedPeriods[k + 1].startPayment - 1
             ELSE totalPayments]

\* C19: every ledger entry with index idx carries the 1-based position and the
\* annual rate of the term whose range [start, end] contains idx, end being
\* the next term's start minus 1 or the nominal total for the last term, and
\* the term position never decreases along the ledger.
C19_TermOfEntry ==
  Running =>
    /\ \A idx \in 1..Len(payments) :
         LET k == payments[idx].termNumber
         IN  /\ k \in 1..Len(sortedPeriods)
             /\ TermRange(k).start <= idx
             /\ idx <= TermRange(k).end
             /\ payments[idx].interestRate = sortedPeriods[k].annualRate
    /\ \A idx \in 2..Len(payments) :
         payments[idx - 1].termNumber <= payments[idx].termNumber

\* The extra amount the rules of the run resolve to at index idx.
ResolvedExtraAt(idx) ==
  SumRuleAmounts(idx, params.additionalPayments,
                 Len(params.additionalPayments))

SumExtraPayments(k) == RSum([j \in 1..k |-> payments[j].additionalPayment])

\* C20: every entry's extra payment is the smaller of the resolved extra
\* amount at its index and the balance left after the entry's principal
\* portion, so the balance never falls below 0, and the summary's total of
\* additional payments is the sum of the entries' extra payments (a single
\* rule of 10000 at index 12 gives a total of 10000).
C20_ExtraCapped ==
  Running =>
    /\ \A idx \in 1..Len(payments) :
         LET left == RSub(BalanceBefore(idx), payments[idx].principal)
             resolved == ResolvedExtraAt(idx)
         IN  payments[idx].additionalPayment =
               IF RLess(resolved, left) THEN resolved ELSE left
    /\ RLeq(Zero, balance)
    /\ totalAdditionalPayments = SumExtraPayments(Len(payments))
    /\ pc = "done" =>
         /\ schedule.summary.totalAdditionalPayments =
              SumExtraPayments(Len(payments))
         /\ (/\ Len(params.additionalPayments) = 1
             /\ params.additionalPayments[1].type = "one-time"
             /\ params.additionalPayments[1].amount = Rat(10000)
             /\ params.additionalPayments[1].startPayment = 12)
            => schedule.summary.totalAdditionalPayments = Rat(10000)

\* An extra payment cut down to the balance that was left, ending the run.
C20_Witness ==
  /\ pc = "done"
  /\ \E idx \in 1..Len(payments) :
       /\ RLess(Zero, payments[idx].additionalPayment)
       /\ RLess(payments[idx].additionalPayment, ResolvedExtraAt(idx))
       /\ payments[idx].balance = Zero
  /\ RLess(Zero, schedule.summary.totalAdditionalPayments)

\* C21: once an entry has been emitted with a remainingBalance of at most
\* 0.01 the run emits no further entry, in that term or in a later one: every
\* ledger entry except the last has remainingBalance > 0.01.
C21_StopsWhenPaidOff ==
  Running =>
    \A idx \in 1..(Len(payments) - 1) :
      RLess(Frac(1, 100), payments[idx].balance)

\* A run ended by the payoff with payments of the horizon still to come.
C21_Witness ==
  /\ pc = "done"
  /\ Len(payments) >= 2
  /\ Len(payments) < totalPayments
  /\ RLeq(payments[Len(payments)].balance, Frac(1, 100))

\* The start index of the term ledger entry idx is labelled with.
StartOfTermOfEntry(idx) == sortedPeriods[payments[idx].termNumber].startPayment

\* C22: a term whose start index exceeds the nominal total payment count
\* contributes no ledger entry and raises no error: no entry is labelled with
\* such a term, and the only errors are those of an empty term list and of a
\* down payment below 5%.
C22_TermBeyondHorizon ==
  /\ Running =>
       \A idx \in 1..Len(payments) : StartOfTermOfEntry(idx) <= totalPayments
  /\ pc = "error" =>
       \/ Len(params.renewalPeriods) = 0
       \/ RLess(params.downPaymentPercent, Rat(5))

\* Every entry of a zero-rate term has interest 0 and a principal portion of
\* balance / remainingCount, both taken where the term starts, capped by the
\* balance before the entry.
C23_StraightLine ==
  \A idx \in 1..Len(payments) :
    RateOfEntry(idx) = Zero =>
      /\ payments[idx].interest = Zero
      /\ payments[idx].principal =
           RMin(RDiv(BalanceBefore(FirstOfTerm(idx)),
                     Rat(totalPayments - FirstOfTerm(idx) + 1)),
                BalanceBefore(idx))
      /\ payments[idx].payment = payments[idx].principal

\* The run has a single term of rate 0 and no prepayment rules.
C23_SingleZeroRateTerm ==
  /\ Len(params.renewalPeriods) = 1
  /\ params.renewalPeriods[1].annualRate = Zero
  /\ params.additionalPayments = <<>>

\* C23: in a term whose periodic rate is exactly 0 the level payment is
\* balance / remainingCount and every entry has interestPortion 0; a single
\* zero-rate term with no prepayments yields exactly the nominal count of
\* equal payments.
C23_ZeroRateTerm ==
  /\ Running => C23_StraightLine
  /\ (pc = "done" /\ C23_SingleZeroRateTerm) =>
       /\ Len(schedule.payments) = totalPayments
       /\ \A idx \in 1..Len(schedule.payments) :
            schedule.payments[idx].payment = schedule.payments[1].payment

\* The number of the day a date falls on, counted from 0001-01-01 as day 1.
DaysBeforeMonth(y, m) ==
  <<0, 31, 59, 90, 120, 151, 181, 212, 243, 273, 304, 334>>[m]
    + (IF m > 2 /\ ((y % 4 = 0 /\ y % 100 # 0) \/ y % 400 = 0) THEN 1 ELSE 0)

DayNumber(date) ==
  365 * (date.y - 1) + (date.y - 1) \div 4 - (date.y - 1) \div 100
    + (date.y - 1) \div 400 + DaysBeforeMonth(date.y, date.m) + date.d

\* round((idx - 1) x 30.44), 7 (idx - 1) or 14 (idx - 1).
DayOffset(idx, frequency) ==
  CASE frequency = "monthly" -> (2 * (idx - 1) * 3044 + 100) \div 200
    [] frequency = "weekly" -> 7 * (idx - 1)
    [] frequency \in {"bi-weekly", "accelerated-bi-weekly"} -> 14 * (idx - 1)

\* C24: the date of ledger entry idx is the start date plus
\* round((idx - 1) x 30.44) days for monthly, 7 (idx - 1) for weekly and
\* 14 (idx - 1) for bi-weekly and accelerated bi-weekly, so entry 1 falls on
\* the start date and the dates strictly increase with the index.
C24_PaymentDates ==
  Running =>
    /\ \A idx \in 1..Len(payments) :
         DayNumber(payments[idx].paymentDate) =
           DayNumber(params.startDate)
             + DayOffset(idx, params.paymentFrequency)
    /\ Len(payments) >= 1 => payments[1].paymentDate = params.startDate
    /\ \A idx \in 2..Len(payments) :
         DayNumber(payments[idx - 1].paymentDate)
           < DayNumber(payments[idx].paymentDate)

\* A monthly ledger that runs past the first anniversary of the start date.
C24_Witness ==
  /\ pc = "done"
  /\ params.paymentFrequency = "monthly"
  /\ Len(payments) >= 14
  /\ payments[13].paymentDate.y = params.startDate.y + 1
  /\ payments[14].paymentDate.y = params.startDate.y + 2

(***************************************************************************)
(* C25: what a run leaves of its inputs.                                   *)
(***************************************************************************)
\* C25: a run leaves its inputs unchanged: at every point of a call, and
\* after it returned or threw, the caller's object has the value it was
\* passed with: the term list in its order and with its contents, the
\* prepayment rules, the limits and the start date.
C25_InputsUnchanged ==
  pc # "idle" =>
    /\ params = arguments
    /\ params.renewalPeriods = arguments.renewalPeriods
    /\ params.additionalPayments = arguments.additionalPayments
    /\ params.prepaymentLimits = arguments.prepaymentLimits
    /\ params.startDate = arguments.startDate

\* A run that returned a ledger from a term list given out of order, with
\* prepayment rules and limits.
C25_Witness ==
  /\ pc = "done"
  /\ Len(payments) >= 2
  /\ Len(arguments.renewalPeriods) = 2
  /\ arguments.renewalPeriods[1].startPayment >
       arguments.renewalPeriods[2].startPayment
  /\ sortedPeriods # arguments.renewalPeriods
  /\ arguments.additionalPayments # <<>>
  /\ arguments.prepaymentLimits.set

(***************************************************************************)
(* C26: the time saved.                                                    *)
(***************************************************************************)
\* The months of the ledger: round(ledgerLength / paymentsPerYear x 12).
C26_PayoffMonths ==
  (2 * 12 * Len(schedule.payments)
     + getPaymentsPerYear(params.paymentFrequency))
    \div (2 * getPaymentsPerYear(params.paymentFrequency))

\* The summary's timeSaved is amortizationYears x 12 - actualPayoffMonths.
C26_TimeSavedFormula ==
  /\ schedule.summary.actualPayoffMonths = C26_PayoffMonths
  /\ schedule.summary.timeSaved =
       RSub(RMul(params.amortizationYears, Rat(12)), Rat(C26_PayoffMonths))

\* C26: the summary's timeSaved is amortizationYears x 12 minus
\* actualPayoffMonths, with actualPayoffMonths the rounded value of
\* ledgerLength / paymentsPerYear x 12, and for every run with amortization
\* years above zero, at any cadence, timeSaved is not negative.
C26_TimeSavedNeverNegative ==
  (pc = "done" /\ RLess(Zero, params.amortizationYears)) =>
    /\ C26_TimeSavedFormula
    /\ RLeq(Zero, schedule.summary.timeSaved)

(***************************************************************************)
(* C27: conservation of the principal.                                     *)
(***************************************************************************)
SumPrincipal(ps) == RSum([k \in 1..Len(ps) |-> ps[k].principal])
SumAdditional(ps) == RSum([k \in 1..Len(ps) |-> ps[k].additionalPayment])
SumInterest(ps) == RSum([k \in 1..Len(ps) |-> ps[k].interest])

\* C27: at every point of a run the starting principal is the sum of the
\* principal portions and of the extra payments of the entries emitted so
\* far plus the running balance, and the total interest of the returned
\* schedule is the sum of the interest portions over the ledger.
C27_Conservation ==
  /\ Running =>
       params.principal =
         RAdd(RAdd(SumPrincipal(payments), SumAdditional(payments)), balance)
  /\ pc = "done" =>
       /\ schedule.totalInterest = SumInterest(schedule.payments)
       /\ schedule.summary.totalInterestPaid = SumInterest(schedule.payments)

\* A returned run of three entries or more with interest and extra payments.
C27_Witness ==
  /\ pc = "done"
  /\ Len(payments) >= 3
  /\ \E idx \in 1..Len(payments) : RLess(Zero, payments[idx].additionalPayment)
  /\ \E idx \in 1..Len(payments) : RLess(Zero, payments[idx].interest)
  /\ RLess(Zero, SumPrincipal(payments))

(***************************************************************************)
(* C28: the limit flag within one reset period.                            *)
(***************************************************************************)
\* Entries j and k fall in one reset period.
SamePeriod(j, k) == PeriodOfEntry(j) = PeriodOfEntry(k)

\* C28: within one reset period the limit flag is monotone: once an entry is
\* marked exceedsLimit, every later entry of the same period with an extra
\* payment above zero is marked too, so that a later entry with an extra
\* payment is unmarked only when its period differs; and an entry without
\* extra payment is never marked.
C28_FlagMonotoneInPeriod ==
  Running =>
    \A k \in 1..Len(payments) :
      /\ payments[k].exceedsLimit =>
           (params.prepaymentLimits.set
              /\ RLess(Zero, payments[k].additionalPayment))
      /\ \A j \in 1..(k - 1) :
           (payments[j].exceedsLimit
              /\ RLess(Zero, payments[k].additionalPayment)) =>
             (payments[k].exceedsLimit \/ ~SamePeriod(j, k))

\* A returned ledger with a marked entry followed in its period by a marked
\* entry and by an entry without extra payment, and followed in another
\* period by an unmarked entry with an extra payment.
C28_Witness ==
  /\ pc = "done"
  /\ params.prepaymentLimits.set
  /\ \E k \in 1..Len(payments) : \E j \in 1..(k - 1) :
       /\ payments[j].exceedsLimit /\ payments[k].exceedsLimit
       /\ SamePeriod(j, k)
  /\ \E k \in 1..Len(payments) : \E j \in 1..(k - 1) :
       /\ payments[j].exceedsLimit /\ SamePeriod(j, k)
       /\ payments[k].additionalPayment = Zero
       /\ ~payments[k].exceedsLimit
  /\ \E k \in 1..Len(payments) : \E j \in 1..(k - 1) :
       /\ payments[j].exceedsLimit /\ ~SamePeriod(j, k)
       /\ RLess(Zero, payments[k].additionalPayment)
       /\ ~payments[k].exceedsLimit

(***************************************************************************)
(* C29: the full ledger when the last term has no extra payment.           *)
(***************************************************************************)
\* The last term that issued payments: the term of the last ledger entry.
C29_LastIssuingTerm == payments[Len(payments)].termNumber

\* Every applied extra payment falls in a term before the last term that
\* issued payments, and the balance was above the tolerance when that term
\* started.
C29_ExtrasBeforeLastTerm ==
  /\ Len(payments) > 0
  /\ \A idx \in 1..Len(payments) :
       RLess(Zero, payments[idx].additionalPayment) =>
         payments[idx].termNumber < C29_LastIssuingTerm
  /\ RLess(Frac(1, 100), BalanceBefore(FirstOfTerm(Len(payments))))

\* C29: if every applied extra payment falls in a term before the last term
\* that issues payments, and the balance is above the tolerance when that
\* term starts, the returned ledger has exactly the nominal payment count.
C29_FullLedgerWithoutLateExtras ==
  (pc = "done" /\ C29_ExtrasBeforeLastTerm) =>
    Len(schedule.payments) = totalPayments

(***************************************************************************)
(* C30: the profile store.                                                 *)
(***************************************************************************)
\* The last call of the store was op with an id that was not in the list.
C30_UnknownId(op) ==
  /\ storage.call.op = op
  /\ storage.call.id \notin StoredIds(storage.call.before)

\* The ids saveProfile has returned that have not been deleted since.
C30_Kept == {id \in 1..Len(storage.returned) : id \notin storage.removed}

\* C30: updateProfile with an id that is not in the stored list returns null
\* and deleteProfile with such an id returns false, and both leave the stored
\* list as it was; a profile that saveProfile has returned is found by
\* getProfile under its id until it is deleted.
C30_ProfileStore ==
  /\ C30_UnknownId("updateProfile") =>
       (storage.call.result = Null /\ storage.item = storage.call.before)
  /\ C30_UnknownId("deleteProfile") =>
       (storage.call.result = FALSE /\ storage.item = storage.call.before)
  /\ \A id \in C30_Kept :
       /\ getProfile(storage.item, id) # Null
       /\ getProfile(storage.item, id).id = id
       /\ getProfile(storage.item, id).createdAt =
            storage.returned[id].createdAt
  /\ (storage.call.op = "getProfile" /\ storage.call.id \in C30_Kept) =>
       (storage.call.result # Null /\ storage.call.result.id = storage.call.id)

\* updateProfile was called with the id of a deleted profile, while another
\* profile that saveProfile returned is still in the list.
C30_Witness ==
  /\ C30_UnknownId("updateProfile")
  /\ storage.call.id \in storage.removed
  /\ C30_Kept # {}
  /\ Len(getProfiles(storage.item)) >= 1

=============================================================================
